---- MODULE Spec2Model ----
(***************************************************************************)
(* Model of the WebGPU triangle demo: init, fetchShaderFile and            *)
(* createGPUBuffer of src/src/main.ts, together with the earlier revision  *)
(* of the same file kept as src/unnamed/part_000 (script-tag shader lookup,*)
(* createBuffer + writeBuffer upload).                                     *)
(*                                                                         *)
(* Every call the program makes on the browser (navigator.gpu, device,     *)
(* canvas, fetch, console) is one step; `trace` records the calls in       *)
(* program order.  Browser behaviour that decides the control flow is      *)
(* modelled by what the platform does: a property access on null throws a  *)
(* TypeError, a WebIDL dictionary with a required member left undefined    *)
(* throws a TypeError, createBuffer with mappedAtCreation and a size that  *)
(* is not a multiple of 4 throws a RangeError, TypedArray.set with a       *)
(* source longer than the target throws a RangeError.                      *)
(***************************************************************************)
EXTENDS Integers, Sequences, FiniteSets, TLC

VARIABLES
    program,      \* which revision of the file runs: "main" or "legacy"
    entry,        \* the function that was invoked: init, fetchShaderFile, createGPUBuffer
    pc,           \* position of the running function
    error,        \* the error init (or the invoked function) ended with
    console,      \* console output, in order: records [level, msg]
    trace,        \* browser API calls made so far, in order
    shadersMap,   \* the registry imported from ./shaders-map: sequence of [id, src]
    scriptTags,   \* legacy: the <script id=..> elements of the page, id -> src
    gpu,          \* navigator.gpu is present
    adapter,      \* result of requestAdapter
    device,       \* requestDevice has resolved
    id,           \* fetchShaderFile: argument
    src,          \* fetchShaderFile: local src
    fetched,      \* URLs handed to fetch, in order
    response,     \* how the fetch settled: none, rejected, not-ok, ok
    content,      \* how response.text() settled: none, rejected, or the text
    ret,          \* value fetchShaderFile resolved to (shader_demo in init)
    shaderCode,   \* the `code` member handed to createShaderModule
    shaderModule, \* a shader module was created
    canvas,       \* result of querySelector('#webgpu-canvas')
    configured,   \* context.configure has been called
    buffer,       \* createGPUBuffer: the source array [kind, length]
    gpuBuffer,    \* the GPU buffer object
    pipeline,     \* the render pipeline descriptor handed to createRenderPipeline
    renderPass,   \* the render pass: [begun, loadOp, storeOp, ended]
    draws,        \* vertex counts of the draw calls, in order
    submits       \* number of command buffers of each queue.submit, in order

vars == <<program, entry, pc, error, console, trace, shadersMap, scriptTags,
          gpu, adapter, device, id, src, fetched, response, content, ret,
          shaderCode, shaderModule, canvas, configured, buffer, gpuBuffer,
          pipeline, renderPass, draws, submits>>

\* groups of variables, for the UNCHANGED clauses
envVars == <<program, entry, shadersMap, scriptTags, gpu>>
acqVars == <<adapter, device>>
fetchVars == <<id, src, fetched, response, content, ret>>
moduleVars == <<shaderCode, shaderModule>>
canvasVars == <<canvas, configured>>
bufferVars == <<buffer, gpuBuffer>>
passVars == <<pipeline, renderPass, draws, submits>>

---------------------------------------------------------------------------
(* Bounds of the model *)

MaxRegistry == 2      \* longest shader registry explored
MaxBufLen == 8        \* longest source array handed directly to createGPUBuffer

---------------------------------------------------------------------------
(* Values *)

Undefined == "undefined"
NoElement == "no-element"
NoError == "none"

ErrNoWebGPU == "WebGPU not supported."
ErrNoAdapter == "Couldn't request WebGPU adapter."
ErrRequiredCode == "TypeError: createShaderModule: required member code is undefined"
ErrNullCanvas == "TypeError: cannot read properties of null (reading 'getContext')"
ErrBufferSize == "RangeError: createBuffer: mappedAtCreation size is not a multiple of 4"
ErrSetRange == "RangeError: TypedArray.set: source is too large"

Programs == {"main", "legacy"}

RegistryIds == {"demo", "other"}
LegacyIds == {"shader-demo", "other"}
UnknownId == "missing"
Paths == {"shaders/demo.wgsl", "shaders/other.wgsl"}

\* the text of the file served at a path
FileText(path) ==
    IF path = "shaders/demo.wgsl" THEN "wgsl:demo" ELSE "wgsl:other"

\* the id init asks for
InitShaderId(p) ==
    IF p = "main" THEN "demo" ELSE "shader-demo"

RegistryEntries == [id : RegistryIds, src : Paths]

Registries ==
    UNION {[1..n -> RegistryEntries] : n \in 0..MaxRegistry}

NoScripts == [i \in LegacyIds |-> NoElement]
ScriptPages == [LegacyIds -> Paths \cup {NoElement}]

Log(level, msg) == [level |-> level, msg |-> msg]

MsgNoShader == "Failed to find shader"
MsgNoScript == "Script tag not found"
MsgFetchError == "Error while fetching shader file"
MsgNoCanvas == "No canvas found to render to!"
MsgUnhandled == "Unhandled buffer format"

Called(op) == \E i \in 1..Len(trace) : trace[i] = op
Count(op) == Cardinality({i \in 1..Len(trace) : trace[i] = op})
Logged(msg) == \E i \in 1..Len(console) : console[i].msg = msg

NoGPUBuffer == [created |-> FALSE, size |-> 0, usage |-> "", mappedAtCreation |-> FALSE,
                mapped |-> FALSE, writes |-> 0, view |-> "", written |-> 0]
NoSource == [kind |-> "", length |-> 0]
NoPipeline == [created |-> FALSE, layout |-> "", topology |-> "",
               vertexEntry |-> "", fragmentEntry |-> "", buffers |-> <<>>]

---------------------------------------------------------------------------
(* fetchShaderFile *)

\* variant: the miss is not detected
Falsy_Never(x) == FALSE

\* JavaScript !x for the values src can take
Falsy(x) == x = Undefined \/ x = ""

\* variant: the loop without its break, so the last matching entry wins
RECURSIVE FindSrc_Last(_, _, _)
FindSrc_Last(map, shaderId, i) ==
    IF i > Len(map) THEN Undefined
    ELSE LET later == FindSrc_Last(map, shaderId, i + 1) IN
         IF later # Undefined THEN later
         ELSE IF map[i].id = shaderId THEN map[i].src
         ELSE Undefined

\* main.ts: the loop over shadersMap, leaving src undefined when no entry matches
RECURSIVE FindSrc(_, _, _)
FindSrc(map, shaderId, i) ==
    IF i > Len(map) THEN Undefined
    ELSE IF map[i].id = shaderId THEN map[i].src
    ELSE FindSrc(map, shaderId, i + 1)

\* where the caller of fetchShaderFile resumes
AfterFetch == IF entry = "init" THEN "createShaderModule" ELSE "returned"

\* main.ts: look the id up, log and return on a miss, otherwise start the fetch
FetchLookup ==
    /\ pc = "fetchShaderFile"
    /\ program = "main"
    /\ LET s == FindSrc(shadersMap, id, 1) IN
        /\ src' = s
        /\ IF Falsy(s)
           THEN /\ console' = Append(console, Log("error", MsgNoShader))
                /\ ret' = Undefined
                /\ pc' = AfterFetch
                /\ UNCHANGED <<trace, fetched>>
           ELSE /\ trace' = Append(trace, "fetch")
                /\ fetched' = Append(fetched, s)
                /\ pc' = "awaitFetch"
                /\ UNCHANGED <<console, ret>>
    /\ UNCHANGED <<envVars, error, acqVars, id, response, content, moduleVars,
                   canvasVars, bufferVars, passVars>>

\* part_000: the <script> element with the id, or none
ScriptElement(page, shaderId) ==
    IF shaderId \in DOMAIN page THEN page[shaderId] ELSE NoElement

\* part_000: find the <script> element, warn and return when there is none,
\* otherwise fetch its src attribute
FetchLookupScript ==
    /\ pc = "fetchShaderFile"
    /\ program = "legacy"
    /\ LET el == ScriptElement(scriptTags, id) IN
        IF el = NoElement
        THEN /\ trace' = Append(trace, "querySelector(script)")
             /\ console' = Append(console, Log("warn", MsgNoScript))
             /\ ret' = Undefined
             /\ pc' = AfterFetch
             /\ UNCHANGED <<src, fetched>>
        ELSE /\ trace' = trace \o <<"querySelector(script)", "fetch">>
             /\ src' = el
             /\ fetched' = Append(fetched, el)
             /\ pc' = "awaitFetch"
             /\ UNCHANGED <<console, ret>>
    /\ UNCHANGED <<envVars, error, acqVars, id, response, content, moduleVars,
                   canvasVars, bufferVars, passVars>>

FetchOutcomes == {"rejected", "not-ok", "ok"}

\* variant: response.ok is not checked, so any response is read as text
FetchSettled_IgnoreOk ==
    /\ pc = "awaitFetch"
    /\ \E outcome \in {"rejected", "not-ok", "ok"} :
        /\ response' = outcome
        /\ IF outcome # "rejected"
           THEN /\ trace' = Append(trace, "response.text")
                /\ pc' = "awaitText"
                /\ UNCHANGED <<console, ret>>
           ELSE /\ console' = Append(console, Log("error", MsgFetchError))
                /\ ret' = Undefined
                /\ pc' = AfterFetch
                /\ UNCHANGED trace
    /\ UNCHANGED <<envVars, error, acqVars, id, src, fetched, content,
                   moduleVars, canvasVars, bufferVars, passVars>>

\* await fetch(src): a rejection or a response that is not ok lands in the
\* catch block, which logs and falls off the end of the function
FetchSettled ==
    /\ pc = "awaitFetch"
    /\ \E outcome \in FetchOutcomes :
        /\ response' = outcome
        /\ IF outcome = "ok"
           THEN /\ trace' = Append(trace, "response.text")
                /\ pc' = "awaitText"
                /\ UNCHANGED <<console, ret>>
           ELSE /\ console' = Append(console, Log("error", MsgFetchError))
                /\ ret' = Undefined
                /\ pc' = AfterFetch
                /\ UNCHANGED trace
    /\ UNCHANGED <<envVars, error, acqVars, id, src, fetched, content,
                   moduleVars, canvasVars, bufferVars, passVars>>

\* await response.text(): the content is returned, a rejection is caught
TextSettled ==
    /\ pc = "awaitText"
    /\ \E ok \in BOOLEAN :
        IF ok
        THEN /\ content' = FileText(src)
             /\ ret' = FileText(src)
             /\ UNCHANGED console
        ELSE /\ content' = "rejected"
             /\ console' = Append(console, Log("error", MsgFetchError))
             /\ ret' = Undefined
    /\ pc' = AfterFetch
    /\ UNCHANGED <<envVars, error, trace, acqVars, id, src, fetched, response,
                   moduleVars, canvasVars, bufferVars, passVars>>

FetchShaderFile == FetchLookup \/ FetchLookupScript \/ FetchSettled \/ TextSettled

---------------------------------------------------------------------------
(* createGPUBuffer *)

TypedArrays == {"Float32Array", "Uint32Array", "Uint16Array", "Uint8Array",
                "Int32Array", "Float64Array", "Int16Array", "Int8Array"}

\* BYTES_PER_ELEMENT of a typed array
BytesPerElement(kind) ==
    CASE kind \in {"Float32Array", "Uint32Array", "Int32Array"} -> 4
      [] kind \in {"Uint16Array", "Int16Array"} -> 2
      [] kind \in {"Uint8Array", "Int8Array"} -> 1
      [] kind = "Float64Array" -> 8

\* buffer.byteLength
ByteLength(source) == source.length * BytesPerElement(source.kind)

\* the instanceof chain: the typed array the mapped range is viewed through
ViewKind(kind) ==
    IF kind = "Float32Array" THEN "Float32Array"
    ELSE IF kind = "Uint32Array" THEN "Uint32Array"
    ELSE IF kind = "Uint16Array" THEN "Uint16Array"
    ELSE IF kind = "Uint8Array" THEN "Uint8Array"
    ELSE "Float32Array"

\* the final else branch of the instanceof chain was taken
Unhandled(kind) ==
    kind \notin {"Float32Array", "Uint32Array", "Uint16Array", "Uint8Array"}

\* variant: the size rounded up to a multiple of 8
BufferSize_Aligned(source) ==
    ((source.length * BytesPerElement(source.kind) + 7) \div 8) * 8

\* the size createGPUBuffer asks createBuffer for
BufferSize(source) == ByteLength(source)

\* where the caller of createGPUBuffer resumes
AfterBuffer == IF entry = "init" THEN "createPipelineLayout" ELSE "returned"

\* device.createBuffer({size, usage, mappedAtCreation: true}); WebGPU throws a
\* RangeError when mappedAtCreation is set and size is not a multiple of 4
CreateMappedBuffer ==
    /\ pc = "createGPUBuffer"
    /\ trace' = Append(trace, "createBuffer")
    /\ IF BufferSize(buffer) % 4 # 0
       THEN /\ pc' = "thrown"
            /\ error' = ErrBufferSize
            /\ UNCHANGED gpuBuffer
       ELSE /\ gpuBuffer' = [created |-> TRUE, size |-> BufferSize(buffer),
                             usage |-> "VERTEX", mappedAtCreation |-> TRUE,
                             mapped |-> TRUE, writes |-> 0, view |-> "",
                             written |-> 0]
            /\ pc' = "writeMapped"
            /\ UNCHANGED error
    /\ UNCHANGED <<envVars, console, acqVars, fetchVars, moduleVars, canvasVars,
                   buffer, passVars>>

\* new <View>(gpuBuffer.getMappedRange()).set(buffer); set throws a RangeError
\* when the source has more elements than the view; the else branch logs
\* after the write
WriteMapped ==
    /\ pc = "writeMapped"
    /\ trace' = Append(trace, "getMappedRange")
    /\ LET view == ViewKind(buffer.kind)
           viewLength == gpuBuffer.size \div BytesPerElement(view)
       IN IF buffer.length > viewLength
          THEN /\ pc' = "thrown"
               /\ error' = ErrSetRange
               /\ UNCHANGED <<gpuBuffer, console>>
          ELSE /\ gpuBuffer' = [gpuBuffer EXCEPT !.writes = @ + 1,
                                                 !.view = view,
                                                 !.written = buffer.length]
               /\ console' = IF Unhandled(buffer.kind)
                             THEN Append(console, Log("error", MsgUnhandled))
                             ELSE console
               /\ pc' = "unmap"
               /\ UNCHANGED error
    /\ UNCHANGED <<envVars, acqVars, fetchVars, moduleVars, canvasVars, buffer,
                   passVars>>

\* gpuBuffer.unmap(); return gpuBuffer
Unmap ==
    /\ pc = "unmap"
    /\ trace' = Append(trace, "unmap")
    /\ gpuBuffer' = [gpuBuffer EXCEPT !.mapped = FALSE]
    /\ pc' = AfterBuffer
    /\ UNCHANGED <<envVars, error, console, acqVars, fetchVars, moduleVars,
                   canvasVars, buffer, passVars>>

CreateGPUBuffer == CreateMappedBuffer \/ WriteMapped \/ Unmap

---------------------------------------------------------------------------
(* init *)

DrawVertexCount == 3      \* passEncoder.draw(3)
VertexFloats == 24        \* the 24 floats of the vertices array

\* const vertices = new Float32Array([...])
Vertices == [kind |-> "Float32Array", length |-> VertexFloats]

\* variant: the color attribute placed after a 3-float position
vertexBufferLayout_Packed ==
    << [attributes |-> << [shaderLocation |-> 0, offset |-> 0, format |-> "float32x4"],
                          [shaderLocation |-> 1, offset |-> 12, format |-> "float32x4"] >>,
        arrayStride |-> 28,
        stepMode |-> "vertex"] >>

\* vertexBufferLayout (main.ts) / vertexBuffers (part_000)
vertexBufferLayout ==
    << [attributes |-> << [shaderLocation |-> 0, offset |-> 0, format |-> "float32x4"],
                          [shaderLocation |-> 1, offset |-> 16, format |-> "float32x4"] >>,
        arrayStride |-> 32,
        stepMode |-> "vertex"] >>

\* !navigator.gpu
GpuMissing == ~gpu

\* variant: the adapter is used unchecked
AdapterMissing_Unchecked(a) == FALSE

\* !adapter
AdapterMissing(a) == a = "null"

\* if (!navigator.gpu) throw; otherwise call requestAdapter
CheckGpu ==
    /\ pc = "init"
    /\ IF GpuMissing
       THEN /\ pc' = "thrown"
            /\ error' = ErrNoWebGPU
            /\ UNCHANGED trace
       ELSE /\ trace' = Append(trace, "requestAdapter")
            /\ pc' = "awaitAdapter"
            /\ UNCHANGED error
    /\ UNCHANGED <<envVars, console, acqVars, fetchVars, moduleVars, canvasVars,
                   bufferVars, passVars>>

\* await requestAdapter(): an adapter or null; if (!adapter) throw; otherwise
\* call requestDevice
AdapterResolved ==
    /\ pc = "awaitAdapter"
    /\ \E a \in {"adapter", "null"} :
        /\ adapter' = a
        /\ IF AdapterMissing(a)
           THEN /\ pc' = "thrown"
                /\ error' = ErrNoAdapter
                /\ UNCHANGED trace
           ELSE /\ trace' = Append(trace, "requestDevice")
                /\ pc' = "awaitDevice"
                /\ UNCHANGED error
    /\ UNCHANGED <<envVars, console, device, fetchVars, moduleVars, canvasVars,
                   bufferVars, passVars>>

\* await requestDevice(); then call fetchShaderFile with the demo shader's id
DeviceResolved ==
    /\ pc = "awaitDevice"
    /\ device' = TRUE
    /\ id' = InitShaderId(program)
    /\ pc' = "fetchShaderFile"
    /\ UNCHANGED <<envVars, error, console, trace, adapter, src, fetched,
                   response, content, ret, moduleVars, canvasVars, bufferVars,
                   passVars>>

\* WebIDL: GPUShaderModuleDescriptor.code is a required member; the conversion
\* of a dictionary whose required member is undefined throws a TypeError
CodeRejected(code) == code = Undefined

\* device.createShaderModule({code: shader_demo})
CreateShaderModule ==
    /\ pc = "createShaderModule"
    /\ trace' = Append(trace, "createShaderModule")
    /\ shaderCode' = ret
    /\ IF CodeRejected(ret)
       THEN /\ pc' = "thrown"
            /\ error' = ErrRequiredCode
            /\ UNCHANGED shaderModule
       ELSE /\ shaderModule' = TRUE
            /\ pc' = "querySelector"
            /\ UNCHANGED error
    /\ UNCHANGED <<envVars, console, acqVars, fetchVars, canvasVars, bufferVars,
                   passVars>>

\* variant: the missing canvas ends init at the check
QueryCanvas_Stops ==
    /\ pc = "querySelector"
    /\ trace' = Append(trace, "querySelector(canvas)")
    /\ \E c \in {"canvas", "null"} :
        /\ canvas' = c
        /\ console' = IF c = "null"
                      THEN Append(console, Log("error", MsgNoCanvas))
                      ELSE console
        /\ pc' = IF c = "null" THEN "done" ELSE "getContext"
    /\ UNCHANGED <<envVars, error, acqVars, fetchVars, moduleVars, configured,
                   bufferVars, passVars>>

\* document.querySelector('#webgpu-canvas'); if (!canvas) console.error(...)
\* with no return or throw
QueryCanvas ==
    /\ pc = "querySelector"
    /\ trace' = Append(trace, "querySelector(canvas)")
    /\ \E c \in {"canvas", "null"} :
        /\ canvas' = c
        /\ console' = IF c = "null"
                      THEN Append(console, Log("error", MsgNoCanvas))
                      ELSE console
    /\ pc' = "getContext"
    /\ UNCHANGED <<envVars, error, acqVars, fetchVars, moduleVars, configured,
                   bufferVars, passVars>>

\* canvas.getContext("webgpu"): reading a property of null throws a TypeError
GetContext ==
    /\ pc = "getContext"
    /\ IF canvas = "null"
       THEN /\ pc' = "thrown"
            /\ error' = ErrNullCanvas
            /\ UNCHANGED trace
       ELSE /\ trace' = Append(trace, "getContext")
            /\ pc' = "configure"
            /\ UNCHANGED error
    /\ UNCHANGED <<envVars, console, acqVars, fetchVars, moduleVars, canvasVars,
                   bufferVars, passVars>>

\* context.configure({...})
Configure ==
    /\ pc = "configure"
    /\ trace' = trace \o <<"getPreferredCanvasFormat", "configure">>
    /\ configured' = TRUE
    /\ pc' = "vertices"
    /\ UNCHANGED <<envVars, error, console, acqVars, fetchVars, moduleVars,
                   canvas, bufferVars, passVars>>

\* const vertices = new Float32Array([...]); main.ts hands it to
\* createGPUBuffer, part_000 to device.createBuffer
MakeVertices ==
    /\ pc = "vertices"
    /\ buffer' = Vertices
    /\ pc' = IF program = "main" THEN "createGPUBuffer" ELSE "createBuffer"
    /\ UNCHANGED <<envVars, error, console, trace, acqVars, fetchVars,
                   moduleVars, canvasVars, gpuBuffer, passVars>>

\* part_000: device.createBuffer({size: vertices.byteLength, usage: VERTEX | COPY_DST})
CreateBufferLegacy ==
    /\ pc = "createBuffer"
    /\ program = "legacy"
    /\ trace' = Append(trace, "createBuffer")
    /\ gpuBuffer' = [created |-> TRUE, size |-> ByteLength(buffer),
                     usage |-> "VERTEX|COPY_DST", mappedAtCreation |-> FALSE,
                     mapped |-> FALSE, writes |-> 0, view |-> "", written |-> 0]
    /\ pc' = "writeBuffer"
    /\ UNCHANGED <<envVars, error, console, acqVars, fetchVars, moduleVars,
                   canvasVars, buffer, passVars>>

\* part_000: device.queue.writeBuffer(vertexBuffer, 0, vertices, 0, vertices.length)
WriteBufferLegacy ==
    /\ pc = "writeBuffer"
    /\ trace' = Append(trace, "writeBuffer")
    /\ gpuBuffer' = [gpuBuffer EXCEPT !.writes = @ + 1,
                                      !.view = buffer.kind,
                                      !.written = buffer.length]
    /\ pc' = "createRenderPipeline"
    /\ UNCHANGED <<envVars, error, console, acqVars, fetchVars, moduleVars,
                   canvasVars, buffer, passVars>>

\* main.ts: device.createPipelineLayout({bindGroupLayouts: []})
CreatePipelineLayout ==
    /\ pc = "createPipelineLayout"
    /\ trace' = Append(trace, "createPipelineLayout")
    /\ pc' = "createRenderPipeline"
    /\ UNCHANGED <<envVars, error, console, acqVars, fetchVars, moduleVars,
                   canvasVars, bufferVars, passVars>>

\* the pipeline descriptor of the revision
PipelineDescriptor(p) ==
    [created |-> TRUE,
     layout |-> IF p = "main" THEN "explicit" ELSE "auto",
     topology |-> "triangle-list",
     vertexEntry |-> "vertex_main",
     fragmentEntry |-> "fragment_main",
     buffers |-> vertexBufferLayout]

\* device.createRenderPipeline(pipelineDescriptor)
CreateRenderPipeline ==
    /\ pc = "createRenderPipeline"
    /\ trace' = trace \o <<"getPreferredCanvasFormat", "createRenderPipeline">>
    /\ pipeline' = PipelineDescriptor(program)
    /\ pc' = "createCommandEncoder"
    /\ UNCHANGED <<envVars, error, console, acqVars, fetchVars, moduleVars,
                   canvasVars, bufferVars, renderPass, draws, submits>>

NoPass == [begun |-> FALSE, loadOp |-> "", storeOp |-> "", ended |-> FALSE]

\* device.createCommandEncoder()
CreateCommandEncoder ==
    /\ pc = "createCommandEncoder"
    /\ trace' = Append(trace, "createCommandEncoder")
    /\ pc' = "beginRenderPass"
    /\ UNCHANGED <<envVars, error, console, acqVars, fetchVars, moduleVars,
                   canvasVars, bufferVars, passVars>>

\* commandEncoder.beginRenderPass(renderPassDesc), the descriptor holding the
\* view of the canvas's current texture; main.ts goes on to setViewport
BeginRenderPass ==
    /\ pc = "beginRenderPass"
    /\ trace' = trace \o <<"getCurrentTexture", "createView", "beginRenderPass">>
    /\ renderPass' = [begun |-> TRUE, loadOp |-> "clear", storeOp |-> "store",
                      ended |-> FALSE]
    /\ pc' = IF program = "main" THEN "setViewport" ELSE "setPipeline"
    /\ UNCHANGED <<envVars, error, console, acqVars, fetchVars, moduleVars,
                   canvasVars, bufferVars, pipeline, draws, submits>>

\* main.ts: passEncoder.setViewport(0, 0, canvas.width, canvas.height, 0, 1)
SetViewport ==
    /\ pc = "setViewport"
    /\ trace' = Append(trace, "setViewport")
    /\ pc' = "setPipeline"
    /\ UNCHANGED <<envVars, error, console, acqVars, fetchVars, moduleVars,
                   canvasVars, bufferVars, passVars>>

\* passEncoder.setPipeline(renderPipeline)
SetPipeline ==
    /\ pc = "setPipeline"
    /\ trace' = Append(trace, "setPipeline")
    /\ pc' = "setVertexBuffer"
    /\ UNCHANGED <<envVars, error, console, acqVars, fetchVars, moduleVars,
                   canvasVars, bufferVars, passVars>>

\* passEncoder.setVertexBuffer(0, vertexBuffer)
SetVertexBuffer ==
    /\ pc = "setVertexBuffer"
    /\ trace' = Append(trace, "setVertexBuffer")
    /\ pc' = "draw"
    /\ UNCHANGED <<envVars, error, console, acqVars, fetchVars, moduleVars,
                   canvasVars, bufferVars, passVars>>

\* variant: the draw is recorded twice
Draw_Twice ==
    /\ pc = "draw"
    /\ trace' = trace \o <<"draw", "draw">>
    /\ draws' = draws \o <<DrawVertexCount, DrawVertexCount>>
    /\ pc' = "end"
    /\ UNCHANGED <<envVars, error, console, acqVars, fetchVars, moduleVars,
                   canvasVars, bufferVars, pipeline, renderPass, submits>>

\* passEncoder.draw(3)
Draw ==
    /\ pc = "draw"
    /\ trace' = Append(trace, "draw")
    /\ draws' = Append(draws, DrawVertexCount)
    /\ pc' = "end"
    /\ UNCHANGED <<envVars, error, console, acqVars, fetchVars, moduleVars,
                   canvasVars, bufferVars, pipeline, renderPass, submits>>

\* variant: the pass is never ended
EndPass_Missing ==
    /\ pc = "end"
    /\ pc' = "submit"
    /\ UNCHANGED <<envVars, error, console, trace, acqVars, fetchVars,
                   moduleVars, canvasVars, bufferVars, passVars>>

\* passEncoder.end()
EndPass ==
    /\ pc = "end"
    /\ trace' = Append(trace, "end")
    /\ renderPass' = [renderPass EXCEPT !.ended = TRUE]
    /\ pc' = "submit"
    /\ UNCHANGED <<envVars, error, console, acqVars, fetchVars, moduleVars,
                   canvasVars, bufferVars, pipeline, draws, submits>>

\* device.queue.submit([commandEncoder.finish()]): the argument is evaluated
\* first, then the one-element array is submitted
Submit ==
    /\ pc = "submit"
    /\ trace' = trace \o <<"finish", "submit">>
    /\ submits' = Append(submits, Len(<<"commandBuffer">>))
    /\ pc' = "done"
    /\ UNCHANGED <<envVars, error, console, acqVars, fetchVars, moduleVars,
                   canvasVars, bufferVars, pipeline, renderPass, draws>>

---------------------------------------------------------------------------
(* Specifications *)

\* the state before the invoked function has run a step
Fresh ==
    /\ error = NoError
    /\ console = <<>>
    /\ trace = <<>>
    /\ adapter = "none"
    /\ device = FALSE
    /\ src = Undefined
    /\ fetched = <<>>
    /\ response = "none"
    /\ content = "none"
    /\ ret = Undefined
    /\ shaderCode = "not-called"
    /\ shaderModule = FALSE
    /\ canvas = "unqueried"
    /\ configured = FALSE
    /\ gpuBuffer = NoGPUBuffer
    /\ pipeline = NoPipeline
    /\ renderPass = NoPass
    /\ draws = <<>>
    /\ submits = <<>>

\* the page: the registry (main.ts) or the script tags (part_000)
Page ==
    /\ program \in Programs
    /\ shadersMap \in (IF program = "main" THEN Registries ELSE {<<>>})
    /\ scriptTags \in (IF program = "legacy" THEN ScriptPages ELSE {NoScripts})

\* document.addEventListener('DOMContentLoaded', init)
Init ==
    /\ Page
    /\ entry = "init"
    /\ pc = "init"
    /\ gpu \in BOOLEAN
    /\ id = Undefined
    /\ buffer = NoSource
    /\ Fresh

Next ==
    \/ CheckGpu
    \/ AdapterResolved
    \/ DeviceResolved
    \/ FetchShaderFile
    \/ CreateShaderModule
    \/ QueryCanvas
    \/ GetContext
    \/ Configure
    \/ MakeVertices
    \/ CreateGPUBuffer
    \/ CreateBufferLegacy
    \/ WriteBufferLegacy
    \/ CreatePipelineLayout
    \/ CreateRenderPipeline
    \/ CreateCommandEncoder
    \/ BeginRenderPass
    \/ SetViewport
    \/ SetPipeline
    \/ SetVertexBuffer
    \/ Draw
    \/ EndPass
    \/ Submit

Spec == Init /\ [][Next]_vars

\* fetchShaderFile invoked on its own, with every id
InitFetch ==
    /\ Page
    /\ entry = "fetchShaderFile"
    /\ pc = "fetchShaderFile"
    /\ gpu = TRUE
    /\ id \in (IF program = "main" THEN RegistryIds ELSE LegacyIds) \cup {UnknownId}
    /\ buffer = NoSource
    /\ Fresh

NextFetch == FetchShaderFile

SpecFetch == InitFetch /\ [][NextFetch]_vars

SourceLengths == (0..MaxBufLen) \cup {VertexFloats}

\* createGPUBuffer invoked on its own, with every typed array
InitBuffer ==
    /\ program = "main"
    /\ shadersMap = <<>>
    /\ scriptTags = NoScripts
    /\ entry = "createGPUBuffer"
    /\ pc = "createGPUBuffer"
    /\ gpu = TRUE
    /\ id = Undefined
    /\ buffer \in [kind : TypedArrays, length : SourceLengths]
    /\ Fresh

NextBuffer == CreateGPUBuffer

SpecBuffer == InitBuffer /\ [][NextBuffer]_vars

---------------------------------------------------------------------------
(* Properties *)

\* the id is that of some registry entry
KnownId == \E i \in 1..Len(shadersMap) : shadersMap[i].id = id

\* the path of the first registry entry whose id matches
RegisteredPath ==
    LET hits == {i \in 1..Len(shadersMap) : shadersMap[i].id = id}
        first == CHOOSE i \in hits : \A j \in hits : i <= j
    IN shadersMap[first].src

\* fetchShaderFile has been called and has returned
FetchReturned ==
    /\ id # Undefined
    /\ pc \notin {"fetchShaderFile", "awaitFetch", "awaitText"}

\* the lookup of fetchShaderFile finds nothing to fetch
LookupMiss ==
    IF program = "main" THEN ~KnownId
    ELSE id \notin DOMAIN scriptTags \/ scriptTags[id] = NoElement

\* the loader failed: a miss, a rejected fetch, a response that is not ok, or
\* a text that could not be read
ShaderLoadFailed ==
    /\ FetchReturned
    /\ \/ LookupMiss
       \/ response \in {"rejected", "not-ok"}
       \/ content = "rejected"

\* nothing after the shader module has happened
NothingAfterModule ==
    /\ ~configured
    /\ ~gpuBuffer.created
    /\ ~pipeline.created
    /\ ~renderPass.begun
    /\ draws = <<>>
    /\ submits = <<>>
    /\ ~Called("configure")
    /\ ~Called("createBuffer")
    /\ ~Called("createRenderPipeline")
    /\ ~Called("draw")
    /\ ~Called("submit")

\* nothing after the adapter has happened
NothingAfterAdapter ==
    /\ NothingAfterModule
    /\ ~device
    /\ ~Called("requestDevice")
    /\ fetched = <<>>
    /\ ~Called("fetch")
    /\ shaderCode = "not-called"
    /\ ~shaderModule
    /\ ~Called("createShaderModule")

\* C1: when navigator.gpu is absent or requestAdapter resolves to null, init
\* has thrown the matching error and none of the later steps has happened:
\* no requestDevice, no shader fetch, no shader module, no configuration, no
\* buffer, no pipeline, no draw, no submission.
C1_FailFast ==
    /\ (~gpu /\ pc # "init") =>
          (pc = "thrown" /\ error = ErrNoWebGPU /\ trace = <<>> /\ NothingAfterAdapter)
    /\ (adapter = "null") =>
          (pc = "thrown" /\ error = ErrNoAdapter /\ NothingAfterAdapter)

C1_Witness == adapter = "null" /\ pc = "thrown" /\ Called("requestAdapter")

\* the position of the first occurrence of a call in the trace
IndexOf(op) == CHOOSE i \in 1..Len(trace) : trace[i] = op /\ \A j \in 1..(i - 1) : trace[j] # op

\* C2: init never draws twice and never submits twice, each draw is of 3
\* vertices, each submission carries one command buffer, a submission comes
\* after the draw, and a run of init that completes has drawn exactly once
\* and submitted exactly once.
C2_OneDrawOneSubmit ==
    /\ Len(draws) <= 1
    /\ Len(submits) <= 1
    /\ Count("draw") = Len(draws)
    /\ Count("submit") = Len(submits)
    /\ \A i \in 1..Len(draws) : draws[i] = 3
    /\ \A i \in 1..Len(submits) : submits[i] = 1
    /\ Called("submit") => (Called("draw") /\ IndexOf("draw") < IndexOf("submit"))
    /\ pc = "done" => (Len(draws) = 1 /\ Len(submits) = 1)

C2_Witness == pc = "done" /\ draws = <<3>> /\ submits = <<1>>

\* C3 as stated: fetchShaderFile of main.ts, called with an id of the
\* registry, resolves to the text of the file at the path of the first
\* matching entry.
C3_KnownIdYieldsText ==
    (program = "main" /\ pc = "returned" /\ KnownId) => ret = FileText(RegisteredPath)

\* C3 amended: with an id of the registry, fetchShaderFile fetches the path
\* of the first matching entry and nothing else; when that fetch resolves
\* with an ok response whose text is read, it resolves to exactly that text,
\* and when the fetch rejects, the response is not ok or the text cannot be
\* read, it resolves to undefined.
C3_KnownIdYieldsTextWhenFetched ==
    (program = "main" /\ pc = "returned" /\ KnownId) =>
        /\ fetched = <<RegisteredPath>>
        /\ response # "none"
        /\ (response = "ok" /\ content # "rejected") => ret = FileText(RegisteredPath)
        /\ (response # "ok" \/ content = "rejected") => ret = Undefined

C3_Witness ==
    /\ program = "main"
    /\ pc = "returned"
    /\ Len(shadersMap) = 2
    /\ shadersMap[1].id = id
    /\ shadersMap[2].id = id
    /\ shadersMap[1].src # shadersMap[2].src
    /\ response = "ok"
    /\ ret = FileText(shadersMap[1].src)

\* C4: fetchShaderFile of main.ts, called with an id that matches no registry
\* entry, logs one error, resolves to undefined and issues no fetch; the
\* earlier revision does the same with a warning when the page has no script
\* element of that id.
C4_UnknownIdNoFetch ==
    /\ (program = "main" /\ pc = "returned" /\ ~KnownId) =>
          /\ ret = Undefined
          /\ console = <<Log("error", MsgNoShader)>>
          /\ fetched = <<>>
          /\ ~Called("fetch")
          /\ error = NoError
    /\ (program = "legacy" /\ pc = "returned" /\ LookupMiss) =>
          /\ ret = Undefined
          /\ console = <<Log("warn", MsgNoScript)>>
          /\ fetched = <<>>
          /\ ~Called("fetch")
          /\ error = NoError

C4_Witness ==
    /\ program = "main"
    /\ pc = "returned"
    /\ ~KnownId
    /\ Len(shadersMap) > 0
    /\ ret = Undefined

\* C5 as stated: when the loader has failed it has logged and resolved to
\* undefined, and once init has handed that value to createShaderModule a
\* module exists and init goes on.
C5_LoadFailureContinues ==
    ShaderLoadFailed =>
        /\ ret = Undefined
        /\ Len(console) >= 1
        /\ Called("createShaderModule") => (shaderCode = Undefined /\ shaderModule)

\* C5 amended: when the loader has failed it has logged and resolved to
\* undefined without throwing; init does not check the value and hands it to
\* createShaderModule as the code, where the call throws a TypeError, so init
\* ends there and no later step (configuration, buffer, pipeline, draw,
\* submission) happens.
C5_LoadFailureStopsAtModule ==
    (entry = "init" /\ ShaderLoadFailed) =>
        /\ ret = Undefined
        /\ Len(console) >= 1
        /\ console[Len(console)].msg \in {MsgNoShader, MsgNoScript, MsgFetchError}
        /\ pc \in {"createShaderModule", "thrown"}
        /\ pc = "createShaderModule" => error = NoError
        /\ pc = "thrown" =>
              /\ error = ErrRequiredCode
              /\ shaderCode = Undefined
              /\ trace[Len(trace)] = "createShaderModule"
              /\ ~shaderModule
              /\ canvas = "unqueried"
              /\ NothingAfterModule

C5_Witness ==
    /\ entry = "init"
    /\ ShaderLoadFailed
    /\ response = "not-ok"
    /\ pc = "thrown"
    /\ shaderCode = Undefined

\* C6: when the canvas element is missing, init has logged the error and has
\* not stopped at the check; the only thing it does next is the getContext
\* call on null, which throws, so nothing is configured and no buffer,
\* pipeline, draw or submission happens, while the device and the shader
\* module exist.
C6_MissingCanvas ==
    canvas = "null" =>
        /\ Logged(MsgNoCanvas)
        /\ pc \in {"getContext", "thrown"}
        /\ pc = "getContext" => error = NoError
        /\ pc = "thrown" => error = ErrNullCanvas
        /\ ~Called("getContext")
        /\ NothingAfterModule
        /\ device
        /\ shaderModule

C6_Witness == canvas = "null" /\ pc = "thrown" /\ error = ErrNullCanvas

\* C7: the buffer createGPUBuffer creates has the byte length of the source
\* as its size: length * 4 for a Float32Array, 96 for the 24 floats of the
\* triangle.
C7_BufferSize ==
    gpuBuffer.created =>
        /\ gpuBuffer.size = buffer.length * BytesPerElement(buffer.kind)
        /\ buffer.kind = "Float32Array" => gpuBuffer.size = buffer.length * 4
        /\ (buffer.kind = "Float32Array" /\ buffer.length = 24) => gpuBuffer.size = 96

C7_Witness ==
    /\ pc = "returned"
    /\ gpuBuffer.created
    /\ buffer.kind = "Float32Array"
    /\ buffer.length = 24
    /\ gpuBuffer.size = 96

\* the byte size of a vertex format
FormatBytes(format) == IF format = "float32x4" THEN 16 ELSE 0

\* C8: the pipeline is created with one vertex buffer layout of stride 32
\* holding two float32x4 attributes, location 0 at offset 0 and location 1 at
\* offset 16, which do not overlap, lie within the stride and fill it.
C8_VertexLayout ==
    pipeline.created =>
        /\ Count("createRenderPipeline") = 1
        /\ Len(pipeline.buffers) = 1
        /\ LET layout == pipeline.buffers[1]
               attrs == layout.attributes
           IN /\ Len(attrs) = 2
              /\ layout.arrayStride = 32
              /\ attrs[1].shaderLocation = 0
              /\ attrs[1].offset = 0
              /\ attrs[2].shaderLocation = 1
              /\ attrs[2].offset = 16
              /\ \A i \in 1..Len(attrs) :
                    /\ attrs[i].format = "float32x4"
                    /\ attrs[i].offset + FormatBytes(attrs[i].format) <= layout.arrayStride
              /\ attrs[1].offset + FormatBytes(attrs[1].format) <= attrs[2].offset
              /\ FormatBytes(attrs[1].format) + FormatBytes(attrs[2].format)
                    = layout.arrayStride

C8_Witness == pipeline.created /\ pc = "done"

\* C9: createGPUBuffer, once the buffer exists, ends by returning it: a
\* source of none of the four handled types has been written through a
\* Float32Array view with an error logged, and on every branch the returned
\* buffer was created mapped, written once and unmapped.
C9_FallbackNeverFails ==
    /\ (gpuBuffer.created /\ Unhandled(buffer.kind) /\ pc \in {"returned", "thrown"}) =>
          /\ pc = "returned"
          /\ gpuBuffer.view = "Float32Array"
          /\ Logged(MsgUnhandled)
    /\ pc = "returned" =>
          /\ gpuBuffer.created
          /\ gpuBuffer.mappedAtCreation
          /\ gpuBuffer.writes = 1
          /\ gpuBuffer.written = buffer.length
          /\ ~gpuBuffer.mapped
          /\ Count("unmap") = 1

\* the steps of init the order is stated for
OrderedSteps ==
    {"requestAdapter", "requestDevice", "fetch", "createShaderModule", "configure",
     "createBuffer", "unmap", "writeBuffer", "createRenderPipeline",
     "beginRenderPass", "setPipeline", "setVertexBuffer", "draw", "end", "finish",
     "submit"}

IsOrderedStep(op) == op \in OrderedSteps

\* the order of those steps in a complete run
StepOrder(p) ==
    <<"requestAdapter", "requestDevice", "fetch", "createShaderModule", "configure",
      "createBuffer", IF p = "main" THEN "unmap" ELSE "writeBuffer",
      "createRenderPipeline", "beginRenderPass", "setPipeline", "setVertexBuffer",
      "draw", "end", "finish", "submit">>

\* C10: in a run of init that has reached the submission, the steps have
\* happened once each and in the stated order, with the adapter and device
\* acquired, the shader text fetched, the buffer unmapped, the pass begun
\* with loadOp clear and ended.
C10_StepOrder ==
    Called("submit") =>
        /\ SelectSeq(trace, IsOrderedStep) = StepOrder(program)
        /\ adapter = "adapter"
        /\ device
        /\ ret = FileText(src)
        /\ shaderCode = ret
        /\ shaderModule
        /\ configured
        /\ gpuBuffer.created
        /\ gpuBuffer.writes = 1
        /\ ~gpuBuffer.mapped
        /\ pipeline.created
        /\ renderPass.begun
        /\ renderPass.loadOp = "clear"
        /\ renderPass.ended

C10_Witness == program = "main" /\ pc = "done" /\ Called("submit") /\ Called("unmap")

====
